---- MODULE Spec2Model ----
(***************************************************************************)
(* dta4hana: the fetch -> act -> refetch pipelines of src/src/dta_app.rs   *)
(* (delete_tweets, unlike_likes) and the OAuth 1.0a parameter strings of   *)
(* src/src/twitter_client.rs (fetch_timeline, count_tweets, delete_tweet). *)
(***************************************************************************)
EXTENDS Integers, Sequences, FiniteSets, TLC

(***************************************************************************)
(* Bounds of the model.                                                    *)
(***************************************************************************)
\* number of distinct tweet ids
NumIds == 3
\* page size of one fetch; stands for max_results=100 of fetch_timeline
PageSize == 2
\* fetch calls of one run under the stubbed client
MaxFetch == 3
\* entries of the remote collection at the start of a run
MaxColl == 3
\* signed calls made on one client
MaxCalls == 3
\* seconds the clock advances while the calls are made
MaxClock == 2

Ids == 1..NumIds

Range(s) == {s[i] : i \in 1..Len(s)}

\* sequences of distinct ids of length at most n
InjSeqs(n) ==
  UNION {{s \in [1..k -> Ids] : \A i, j \in 1..k : i # j => s[i] # s[j]} : k \in 0..n}

\* what one fetch can return: at most one page of distinct tweets
Batches == InjSeqs(PageSize)

\* the remote collections a run can start from
Collections == InjSeqs(MaxColl)

VARIABLES
  op,                  \* the command: "delete" (delete_tweets) or "unlike" (unlike_likes)
  pc,                  \* position of the run
  is_continued,        \* the loop flag of both pipelines
  result,              \* the batch the last fetch returned
  pos,                 \* index in result of the next item of the for loop
  total_tweets_count,  \* result.len()
  tweets_count,        \* deleted_tweets_count / unliked_tweets_count
  ret,                 \* "none" while running, then "Ok" or "Err"
  errId,               \* the id named by the returned error, 0 when none
  lastFetch,           \* outcome of the last fetch call: "none", "ok", "err", "panic"
  acted,               \* single-item action calls of the current batch:
                       \* <<id, ok, number of sleeps that followed the call>>
  tally,               \* calls of the whole run (stubbed client only)
  coll,                \* the remote collection (collection client only)
  everActed,           \* ids ever passed to the single-item action
  sign,                \* the request the client signs: its inputs, then what it built
  client,              \* a TwitterClient and the signed calls made on it
  prog                 \* one run of main: init_client, login, the dispatched command

vars == <<op, pc, is_continued, result, pos, total_tweets_count, tweets_count,
          ret, errId, lastFetch, acted, tally, coll, everActed, sign, client, prog>>

runVars == <<op, pc, is_continued, result, pos, total_tweets_count, tweets_count,
             ret, errId, lastFetch, acted, tally, coll, everActed>>

Terminal == {"Done", "Aborted", "Panicked"}

ZeroTally == [fetch |-> 0, act |-> 0, failed |-> 0, nonEmpty |-> 0, fetched |-> 0]

\* no request is being signed
NoSign == [phase |-> "none"]

\* no client is being called
NoClient == [phase |-> "none"]

\* main is not running
NoProg == [phase |-> "none"]

\* no pipeline is running
IdleRun ==
  /\ op = "none"
  /\ pc = "Idle"
  /\ is_continued = TRUE
  /\ result = <<>>
  /\ pos = 1
  /\ total_tweets_count = 0
  /\ tweets_count = 0
  /\ ret = "none"
  /\ errId = 0
  /\ lastFetch = "none"
  /\ acted = <<>>
  /\ everActed = {}
  /\ tally = ZeroTally
  /\ coll = <<>>

InitRun ==
  /\ sign = NoSign
  /\ client = NoClient
  /\ prog = NoProg
  /\ op \in {"delete", "unlike"}
  /\ pc = "FetchingBatch"
  /\ is_continued = TRUE
  /\ result = <<>>
  /\ pos = 1
  /\ total_tweets_count = 0
  /\ tweets_count = 0
  /\ ret = "none"
  /\ errId = 0
  /\ lastFetch = "none"
  /\ acted = <<>>
  /\ everActed = {}
  /\ tally = ZeroTally

(***************************************************************************)
(* The pipelines, one step per client call.                                *)
(***************************************************************************)

\* `break` out of the while loop, then the Ok(()) after it
BreakAndReturn ==
  /\ is_continued' = FALSE
  /\ pc' = "Done"
  /\ ret' = "Ok"
  /\ UNCHANGED <<pos, total_tweets_count, tweets_count, errId>>

\* mutant: the fetch error is propagated with `?` instead of ending the run
FetchErr_Propagate ==
  /\ pc = "FetchingBatch" /\ is_continued
  /\ lastFetch' = "err"
  /\ pc' = "Aborted"
  /\ ret' = "Err"
  /\ UNCHANGED <<op, is_continued, result, pos, total_tweets_count, tweets_count,
                 errId, acted, everActed>>

\* the fetch call returned Err(_)
FetchErr ==
  /\ pc = "FetchingBatch" /\ is_continued
  /\ lastFetch' = "err"
  /\ BreakAndReturn
  /\ UNCHANGED <<op, result, acted, everActed>>

\* fetch_timeline's request failed at the transport: it panics
FetchPanic ==
  /\ pc = "FetchingBatch" /\ is_continued
  /\ op = "delete"
  /\ lastFetch' = "panic"
  /\ pc' = "Panicked"
  /\ UNCHANGED <<op, is_continued, result, pos, total_tweets_count, tweets_count,
                 ret, errId, acted, everActed>>

\* mutant: the check for an empty batch is missing, the empty for loop falls
\* through to the next round of the while loop
FetchOk_NoEmptyCheck(batch) ==
  /\ pc = "FetchingBatch" /\ is_continued
  /\ lastFetch' = "ok"
  /\ result' = batch
  /\ acted' = <<>>
  /\ total_tweets_count' = Len(batch)
  /\ tweets_count' = 0
  /\ pos' = 1
  /\ pc' = IF Len(batch) = 0 THEN "FetchingBatch" ELSE "ActingOnBatch"
  /\ UNCHANGED <<op, everActed, is_continued, ret, errId>>

\* the fetch call returned Ok(batch)
FetchOk(batch) ==
  /\ pc = "FetchingBatch" /\ is_continued
  /\ lastFetch' = "ok"
  /\ result' = batch
  /\ acted' = <<>>
  /\ IF Len(batch) = 0
       THEN BreakAndReturn
       ELSE /\ total_tweets_count' = Len(batch)
            /\ tweets_count' = 0
            /\ pos' = 1
            /\ pc' = "ActingOnBatch"
            /\ UNCHANGED <<is_continued, ret, errId>>
  /\ UNCHANGED <<op, everActed>>

\* mutant: the loop does not advance to the next item
NextItem_Stay ==
  /\ pos' = pos
  /\ pc' = IF Len(acted) + 1 >= Len(result) THEN "FetchingBatch" ELSE "ActingOnBatch"

\* end of the for loop body: next item, or back to the top of the while loop
NextItem ==
  /\ pos' = pos + 1
  /\ pc' = IF pos = Len(result) THEN "FetchingBatch" ELSE "ActingOnBatch"

\* mutant: a failed delete is skipped, as unlike_likes skips a failed unlike
DeleteItem_Lenient(ok) ==
  /\ pc = "ActingOnBatch" /\ op = "delete"
  /\ pos <= Len(result)
  /\ acted' = Append(acted, <<result[pos], ok, 1>>)
  /\ everActed' = everActed \cup {result[pos]}
  /\ tweets_count' = tweets_count + 1
  /\ NextItem
  /\ UNCHANGED <<op, is_continued, result, total_tweets_count, lastFetch, ret, errId>>

\* mutant: the round ends after the first successful delete
DeleteItem_OnePerRound(ok) ==
  /\ pc = "ActingOnBatch" /\ op = "delete"
  /\ pos <= Len(result)
  /\ acted' = Append(acted, <<result[pos], ok, IF ok THEN 1 ELSE 0>>)
  /\ everActed' = everActed \cup {result[pos]}
  /\ IF ~ok
       THEN /\ pc' = "Aborted"
            /\ ret' = "Err"
            /\ errId' = result[pos]
            /\ UNCHANGED <<pos, tweets_count>>
       ELSE /\ tweets_count' = tweets_count + 1
            /\ pos' = pos + 1
            /\ pc' = "FetchingBatch"
            /\ UNCHANGED <<ret, errId>>
  /\ UNCHANGED <<op, is_continued, result, total_tweets_count, lastFetch>>

\* one iteration of delete_tweets' for loop, delete_tweet answering ok
DeleteItem(ok) ==
  /\ pc = "ActingOnBatch" /\ op = "delete"
  /\ pos <= Len(result)
  /\ acted' = Append(acted, <<result[pos], ok, IF ok THEN 1 ELSE 0>>)
  /\ everActed' = everActed \cup {result[pos]}
  /\ IF ~ok
       THEN /\ pc' = "Aborted"
            /\ ret' = "Err"
            /\ errId' = result[pos]
            /\ UNCHANGED <<pos, tweets_count>>
       ELSE /\ tweets_count' = tweets_count + 1
            /\ NextItem
            /\ UNCHANGED <<ret, errId>>
  /\ UNCHANGED <<op, is_continued, result, total_tweets_count, lastFetch>>

\* mutant: a failed unlike ends the run with an error, as a failed delete does
UnlikeItem_Fatal(ok) ==
  /\ pc = "ActingOnBatch" /\ op = "unlike"
  /\ pos <= Len(result)
  /\ acted' = Append(acted, <<result[pos], ok, IF ok THEN 1 ELSE 0>>)
  /\ everActed' = everActed \cup {result[pos]}
  /\ IF ~ok
       THEN /\ pc' = "Aborted"
            /\ ret' = "Err"
            /\ errId' = result[pos]
            /\ UNCHANGED <<pos, tweets_count>>
       ELSE /\ tweets_count' = tweets_count + 1
            /\ NextItem
            /\ UNCHANGED <<ret, errId>>
  /\ UNCHANGED <<op, is_continued, result, total_tweets_count, lastFetch>>

\* mutant: the sleep is inside the arm of a successful unlike only
UnlikeItem_NoPauseOnSkip(ok) ==
  /\ pc = "ActingOnBatch" /\ op = "unlike"
  /\ pos <= Len(result)
  /\ acted' = Append(acted, <<result[pos], ok, IF ok THEN 1 ELSE 0>>)
  /\ everActed' = everActed \cup {result[pos]}
  /\ tweets_count' = IF ok THEN tweets_count + 1 ELSE tweets_count + 2
  /\ NextItem
  /\ UNCHANGED <<op, is_continued, result, total_tweets_count, ret, errId, lastFetch>>

\* one iteration of unlike_likes' for loop, delete_liked answering ok
UnlikeItem(ok) ==
  /\ pc = "ActingOnBatch" /\ op = "unlike"
  /\ pos <= Len(result)
  /\ acted' = Append(acted, <<result[pos], ok, 1>>)
  /\ everActed' = everActed \cup {result[pos]}
  /\ tweets_count' = IF ok THEN tweets_count + 1 ELSE tweets_count + 2
  /\ NextItem
  /\ UNCHANGED <<op, is_continued, result, total_tweets_count, ret, errId, lastFetch>>

(***************************************************************************)
(* The stubbed client: a fetch returns any batch, an action any outcome.   *)
(***************************************************************************)
TallyFetch(batch) ==
  tally' = [tally EXCEPT !.fetch = @ + 1,
                         !.nonEmpty = @ + (IF Len(batch) > 0 THEN 1 ELSE 0),
                         !.fetched = @ + Len(batch)]

TallyAct(ok) ==
  tally' = [tally EXCEPT !.act = @ + 1, !.failed = @ + (IF ok THEN 0 ELSE 1)]

StubFetchOk ==
  /\ tally.fetch < MaxFetch
  /\ \E batch \in Batches : FetchOk(batch) /\ TallyFetch(batch)
  /\ UNCHANGED <<coll, sign, client, prog>>

StubFetchErr ==
  /\ tally.fetch < MaxFetch
  /\ FetchErr /\ TallyFetch(<<>>)
  /\ UNCHANGED <<coll, sign, client, prog>>

StubFetchPanic ==
  /\ tally.fetch < MaxFetch
  /\ FetchPanic /\ TallyFetch(<<>>)
  /\ UNCHANGED <<coll, sign, client, prog>>

StubDelete ==
  /\ \E ok \in BOOLEAN : DeleteItem(ok) /\ TallyAct(ok)
  /\ UNCHANGED <<coll, sign, client, prog>>

StubUnlike ==
  /\ \E ok \in BOOLEAN : UnlikeItem(ok) /\ TallyAct(ok)
  /\ UNCHANGED <<coll, sign, client, prog>>

Init ==
  /\ InitRun
  /\ coll = <<>>

Next ==
  \/ StubFetchOk
  \/ StubFetchErr
  \/ StubFetchPanic
  \/ StubDelete
  \/ StubUnlike

Spec == Init /\ [][Next]_vars

(***************************************************************************)
(* The collection client: the remote collection is a finite list, a fetch  *)
(* returns its first page, a successful action removes its target and a    *)
(* failed action leaves it in place.                                       *)
(***************************************************************************)
Page(c) == SubSeq(c, 1, IF Len(c) < PageSize THEN Len(c) ELSE PageSize)

RECURSIVE Remove(_, _)
Remove(c, id) ==
  IF c = <<>> THEN <<>>
  ELSE IF Head(c) = id THEN Tail(c)
  ELSE <<Head(c)>> \o Remove(Tail(c), id)

CollFetchOk ==
  /\ FetchOk(Page(coll))
  /\ UNCHANGED <<coll, tally, sign, client, prog>>

CollFetchErr ==
  /\ FetchErr
  /\ UNCHANGED <<coll, tally, sign, client, prog>>

CollFetchPanic ==
  /\ FetchPanic
  /\ UNCHANGED <<coll, tally, sign, client, prog>>

CollDelete ==
  /\ \E ok \in BOOLEAN :
       /\ DeleteItem(ok)
       /\ coll' = IF ok THEN Remove(coll, result[pos]) ELSE coll
  /\ UNCHANGED <<tally, sign, client, prog>>

CollUnlike ==
  /\ \E ok \in BOOLEAN :
       /\ UnlikeItem(ok)
       /\ coll' = IF ok THEN Remove(coll, result[pos]) ELSE coll
  /\ UNCHANGED <<tally, sign, client, prog>>

CollInit ==
  /\ InitRun
  /\ coll \in Collections

CollNext ==
  \/ CollFetchOk
  \/ CollFetchErr
  \/ CollFetchPanic
  \/ CollDelete
  \/ CollUnlike

CollSpec == CollInit /\ [][CollNext]_vars

\* the program is sequential and always takes its next step
FairCollSpec == CollSpec /\ WF_vars(CollNext)

(***************************************************************************)
(* The signed requests of twitter_client.rs.  A string is the sequence of  *)
(* its characters; an Option is <<>> (None) or <<v>> (Some(v)).            *)
(***************************************************************************)

\* the characters of the model in ascending byte order
AsciiOrder == <<" ", "%", "&", "+", ",", "-", ".", "/", "0", "1", "2", "3", "4", "5", "6", "7", "8", "9", ":", "=", "A", "B", "C", "D", "E", "F", "G", "H", "I", "J", "K", "L", "M", "N", "O", "P", "Q", "R", "S", "T", "U", "V", "W", "X", "Y", "Z", "_", "a", "b", "c", "d", "e", "f", "g", "h", "i", "j", "k", "l", "m", "n", "o", "p", "q", "r", "s", "t", "u", "v", "w", "x", "y", "z">>

Code(c) == CHOOSE i \in 1..Len(AsciiOrder) : AsciiOrder[i] = c

\* the bytes url::form_urlencoded::byte_serialize leaves as they are
Unreserved == {AsciiOrder[i] : i \in 1..Len(AsciiOrder)} \ {" ", "%", "&", "+", ",", "/", ":", "="}

\* the two hex digits of the other bytes
HexOf(c) ==
  CASE c = "%" -> <<"2", "5">>
    [] c = "&" -> <<"2", "6">>
    [] c = "+" -> <<"2", "B">>
    [] c = "," -> <<"2", "C">>
    [] c = "/" -> <<"2", "F">>
    [] c = ":" -> <<"3", "A">>
    [] c = "=" -> <<"3", "D">>

\* mutant: every byte is left as it is
byte_serialize_Raw(str) == str

\* the concatenation of pieces[lo..hi]
RECURSIVE Concat(_, _, _)
Concat(pieces, lo, hi) ==
  IF lo > hi THEN <<>>
  ELSE IF lo = hi THEN pieces[lo]
  ELSE LET mid == (lo + hi) \div 2
       IN  Concat(pieces, lo, mid) \o Concat(pieces, mid + 1, hi)

\* url::form_urlencoded::byte_serialize(..).collect(): a space becomes "+",
\* an unreserved byte stays, any other byte becomes %XX
byte_serialize(str) ==
  Concat([i \in 1..Len(str) |->
            IF str[i] \in Unreserved THEN <<str[i]>>
            ELSE IF str[i] = " " THEN <<"+">>
            ELSE <<"%">> \o HexOf(str[i])],
         1, Len(str))

\* format!: the literal pieces with the arguments between them
RECURSIVE Format(_, _)
Format(lits, args) ==
  IF args = <<>> THEN Head(lits)
  ELSE Head(lits) \o Head(args) \o Format(Tail(lits), Tail(args))

IsSome(o) == Len(o) = 1
Unwrap(o) == o[1]

\* since / until with the time of day appended
WithTime(o) == IF IsSome(o) THEN <<Unwrap(o) \o <<"T", "0", "0", ":", "0", "0", ":", "0", "0", "Z">>>> ELSE <<>>

\* the literals of the six OAuth parameters, shared by every format string
OAuthLits == <<<<"&", "o", "a", "u", "t", "h", "_", "n", "o", "n", "c", "e", "=">>,
               <<"&", "o", "a", "u", "t", "h", "_", "s", "i", "g", "n", "a", "t", "u", "r", "e", "_", "m", "e", "t", "h", "o", "d", "=">>,
               <<"&", "o", "a", "u", "t", "h", "_", "t", "i", "m", "e", "s", "t", "a", "m", "p", "=">>,
               <<"&", "o", "a", "u", "t", "h", "_", "t", "o", "k", "e", "n", "=">>,
               <<"&", "o", "a", "u", "t", "h", "_", "v", "e", "r", "s", "i", "o", "n", "=">>>>

HMAC_SHA1 == <<"H", "M", "A", "C", "-", "S", "H", "A", "1">>
Version10 == <<"1", ".", "0">>

OAuthArgs(in) == <<in.consumer_key, in.oauth_nonce, HMAC_SHA1, in.oauth_timestamp,
                   in.oauth_token, Version10>>

\* mutant: start_time is written before the OAuth parameters
FetchSignatureData_Unsorted(in, since, until) ==
  IF IsSome(since)
    THEN Format(<<<<"m", "a", "x", "_", "r", "e", "s", "u", "l", "t", "s", "=", "1", "0", "0", "&", "s", "t", "a", "r", "t", "_", "t", "i", "m", "e", "=">>, <<"&", "o", "a", "u", "t", "h", "_", "c", "o", "n", "s", "u", "m", "e", "r", "_", "k", "e", "y", "=">>>> \o OAuthLits \o <<<<"&", "t", "w", "e", "e", "t", ".", "f", "i", "e", "l", "d", "s", "=", "c", "r", "e", "a", "t", "e", "d", "_", "a", "t", "%", "2", "C", "p", "u", "b", "l", "i", "c", "_", "m", "e", "t", "r", "i", "c", "s", "%", "2", "C", "a", "t", "t", "a", "c", "h", "m", "e", "n", "t", "s">>>>,
                <<byte_serialize(Unwrap(since))>> \o OAuthArgs(in))
    ELSE Format(<<<<"m", "a", "x", "_", "r", "e", "s", "u", "l", "t", "s", "=", "1", "0", "0", "&", "o", "a", "u", "t", "h", "_", "c", "o", "n", "s", "u", "m", "e", "r", "_", "k", "e", "y", "=">>>> \o OAuthLits \o <<<<"&", "t", "w", "e", "e", "t", ".", "f", "i", "e", "l", "d", "s", "=", "c", "r", "e", "a", "t", "e", "d", "_", "a", "t", "%", "2", "C", "p", "u", "b", "l", "i", "c", "_", "m", "e", "t", "r", "i", "c", "s", "%", "2", "C", "a", "t", "t", "a", "c", "h", "m", "e", "n", "t", "s">>>>, OAuthArgs(in))

\* signature_data of fetch_timeline, one format string per since/until case
FetchSignatureData(in, since, until) ==
  IF IsSome(since) /\ IsSome(until)
    THEN Format(<<<<"e", "n", "d", "_", "t", "i", "m", "e", "=">>, <<"&", "m", "a", "x", "_", "r", "e", "s", "u", "l", "t", "s", "=", "1", "0", "0", "&", "o", "a", "u", "t", "h", "_", "c", "o", "n", "s", "u", "m", "e", "r", "_", "k", "e", "y", "=">>>> \o OAuthLits \o <<<<"&", "s", "t", "a", "r", "t", "_", "t", "i", "m", "e", "=">>, <<"&", "t", "w", "e", "e", "t", ".", "f", "i", "e", "l", "d", "s", "=", "c", "r", "e", "a", "t", "e", "d", "_", "a", "t", "%", "2", "C", "p", "u", "b", "l", "i", "c", "_", "m", "e", "t", "r", "i", "c", "s", "%", "2", "C", "a", "t", "t", "a", "c", "h", "m", "e", "n", "t", "s">>>>,
                <<byte_serialize(Unwrap(until))>> \o OAuthArgs(in)
                  \o <<byte_serialize(Unwrap(since))>>)
  ELSE IF IsSome(since)
    THEN Format(<<<<"m", "a", "x", "_", "r", "e", "s", "u", "l", "t", "s", "=", "1", "0", "0", "&", "o", "a", "u", "t", "h", "_", "c", "o", "n", "s", "u", "m", "e", "r", "_", "k", "e", "y", "=">>>> \o OAuthLits \o <<<<"&", "s", "t", "a", "r", "t", "_", "t", "i", "m", "e", "=">>, <<"&", "t", "w", "e", "e", "t", ".", "f", "i", "e", "l", "d", "s", "=", "c", "r", "e", "a", "t", "e", "d", "_", "a", "t", "%", "2", "C", "p", "u", "b", "l", "i", "c", "_", "m", "e", "t", "r", "i", "c", "s", "%", "2", "C", "a", "t", "t", "a", "c", "h", "m", "e", "n", "t", "s">>>>,
                OAuthArgs(in) \o <<byte_serialize(Unwrap(since))>>)
  ELSE IF IsSome(until)
    THEN Format(<<<<"e", "n", "d", "_", "t", "i", "m", "e", "=">>, <<"&", "m", "a", "x", "_", "r", "e", "s", "u", "l", "t", "s", "=", "1", "0", "0", "&", "o", "a", "u", "t", "h", "_", "c", "o", "n", "s", "u", "m", "e", "r", "_", "k", "e", "y", "=">>>> \o OAuthLits \o <<<<"&", "t", "w", "e", "e", "t", ".", "f", "i", "e", "l", "d", "s", "=", "c", "r", "e", "a", "t", "e", "d", "_", "a", "t", "%", "2", "C", "p", "u", "b", "l", "i", "c", "_", "m", "e", "t", "r", "i", "c", "s", "%", "2", "C", "a", "t", "t", "a", "c", "h", "m", "e", "n", "t", "s">>>>,
                <<byte_serialize(Unwrap(until))>> \o OAuthArgs(in))
  ELSE Format(<<<<"m", "a", "x", "_", "r", "e", "s", "u", "l", "t", "s", "=", "1", "0", "0", "&", "o", "a", "u", "t", "h", "_", "c", "o", "n", "s", "u", "m", "e", "r", "_", "k", "e", "y", "=">>>> \o OAuthLits \o <<<<"&", "t", "w", "e", "e", "t", ".", "f", "i", "e", "l", "d", "s", "=", "c", "r", "e", "a", "t", "e", "d", "_", "a", "t", "%", "2", "C", "p", "u", "b", "l", "i", "c", "_", "m", "e", "t", "r", "i", "c", "s", "%", "2", "C", "a", "t", "t", "a", "c", "h", "m", "e", "n", "t", "s">>>>, OAuthArgs(in))

\* signature_data of count_tweets
CountSignatureData(in, since, until) ==
  IF IsSome(since) /\ IsSome(until)
    THEN Format(<<<<"e", "n", "d", "_", "t", "i", "m", "e", "=">>, <<"&", "o", "a", "u", "t", "h", "_", "c", "o", "n", "s", "u", "m", "e", "r", "_", "k", "e", "y", "=">>>> \o OAuthLits \o <<<<"&", "s", "t", "a", "r", "t", "_", "t", "i", "m", "e", "=">>, <<>> >>,
                <<byte_serialize(Unwrap(until))>> \o OAuthArgs(in)
                  \o <<byte_serialize(Unwrap(since))>>)
  ELSE IF IsSome(since)
    THEN Format(<<<<"o", "a", "u", "t", "h", "_", "c", "o", "n", "s", "u", "m", "e", "r", "_", "k", "e", "y", "=">>>> \o OAuthLits \o <<<<"&", "s", "t", "a", "r", "t", "_", "t", "i", "m", "e", "=">>, <<>> >>,
                OAuthArgs(in) \o <<byte_serialize(Unwrap(since))>>)
  ELSE IF IsSome(until)
    THEN Format(<<<<"e", "n", "d", "_", "t", "i", "m", "e", "=">>, <<"&", "o", "a", "u", "t", "h", "_", "c", "o", "n", "s", "u", "m", "e", "r", "_", "k", "e", "y", "=">>>> \o OAuthLits \o << <<>> >>,
                <<byte_serialize(Unwrap(until))>> \o OAuthArgs(in))
  ELSE Format(<<<<"o", "a", "u", "t", "h", "_", "c", "o", "n", "s", "u", "m", "e", "r", "_", "k", "e", "y", "=">>>> \o OAuthLits \o << <<>> >>, OAuthArgs(in))

\* signature_data of delete_tweet
DeleteSignatureData(in) ==
  Format(<<<<"o", "a", "u", "t", "h", "_", "c", "o", "n", "s", "u", "m", "e", "r", "_", "k", "e", "y", "=">>>> \o OAuthLits \o << <<>> >>, OAuthArgs(in))

\* METHOD&encoded target&encoded signature_data
JoinedSignatureData(method, target, signature_data) ==
  Format(<<<<>>, <<"&">>, <<"&">>, <<>> >>,
         <<method, byte_serialize(target), byte_serialize(signature_data)>>)

\* encoded consumer secret & encoded token secret
SignatureKey(in) ==
  Format(<<<<>>, <<"&">>, <<>> >>,
         <<byte_serialize(in.consumer_secret), byte_serialize(in.oauth_token_secret)>>)

\* mutant: tweet.fields is signed but not attached to the request
FetchQuery_NoFields(since, until) ==
  <<<<<<"m", "a", "x", "_", "r", "e", "s", "u", "l", "t", "s">>, <<"1", "0", "0">>>>>>
    \o (IF IsSome(since) /\ IsSome(until)
          THEN <<<<<<"e", "n", "d", "_", "t", "i", "m", "e">>, Unwrap(until)>>, <<<<"s", "t", "a", "r", "t", "_", "t", "i", "m", "e">>, Unwrap(since)>>>>
        ELSE IF IsSome(since) THEN <<<<<<"s", "t", "a", "r", "t", "_", "t", "i", "m", "e">>, Unwrap(since)>>>>
        ELSE IF IsSome(until) THEN <<<<<<"e", "n", "d", "_", "t", "i", "m", "e">>, Unwrap(until)>>>>
        ELSE <<>>)

\* the query parameters fetch_timeline attaches to the request
FetchQuery(since, until) ==
  <<<<<<"m", "a", "x", "_", "r", "e", "s", "u", "l", "t", "s">>, <<"1", "0", "0">>>>, <<<<"t", "w", "e", "e", "t", ".", "f", "i", "e", "l", "d", "s">>, <<"c", "r", "e", "a", "t", "e", "d", "_", "a", "t", ",", "p", "u", "b", "l", "i", "c", "_", "m", "e", "t", "r", "i", "c", "s", ",", "a", "t", "t", "a", "c", "h", "m", "e", "n", "t", "s">>>>>>
    \o (IF IsSome(since) /\ IsSome(until)
          THEN <<<<<<"e", "n", "d", "_", "t", "i", "m", "e">>, Unwrap(until)>>, <<<<"s", "t", "a", "r", "t", "_", "t", "i", "m", "e">>, Unwrap(since)>>>>
        ELSE IF IsSome(since) THEN <<<<<<"s", "t", "a", "r", "t", "_", "t", "i", "m", "e">>, Unwrap(since)>>>>
        ELSE IF IsSome(until) THEN <<<<<<"e", "n", "d", "_", "t", "i", "m", "e">>, Unwrap(until)>>>>
        ELSE <<>>)

\* the query parameters count_tweets attaches to the request
CountQuery(since, until) ==
  IF IsSome(since) /\ IsSome(until)
    THEN <<<<<<"e", "n", "d", "_", "t", "i", "m", "e">>, Unwrap(until)>>, <<<<"s", "t", "a", "r", "t", "_", "t", "i", "m", "e">>, Unwrap(since)>>>>
  ELSE IF IsSome(since) THEN <<<<<<"s", "t", "a", "r", "t", "_", "t", "i", "m", "e">>, Unwrap(since)>>>>
  ELSE IF IsSome(until) THEN <<<<<<"e", "n", "d", "_", "t", "i", "m", "e">>, Unwrap(until)>>>>
  ELSE <<>>

GET == <<"G", "E", "T">>
POST == <<"P", "O", "S", "T">>

\* what a call has built when it issues its request
Signed(in, call, method, target, since, until, signature_data, query) ==
  [phase |-> "signed",
   call |-> call,
   in |-> in,
   since |-> since,
   until |-> until,
   method |-> method,
   target |-> target,
   signature_data |-> signature_data,
   joined_signature_data |-> JoinedSignatureData(method, target, signature_data),
   signature_key |-> SignatureKey(in),
   query |-> query]

SignFetchTimeline ==
  /\ sign.phase = "input"
  /\ LET in == sign.in
         since == WithTime(sign.since)
         until == WithTime(sign.until)
         target == Format(<<in.server \o <<"2", "/", "u", "s", "e", "r", "s", "/">>, <<"/", "t", "w", "e", "e", "t", "s">>>>, <<in.id>>)
     IN  sign' = Signed(in, "fetch_timeline", GET, target, since, until,
                        FetchSignatureData(in, since, until), FetchQuery(since, until))
  /\ UNCHANGED <<runVars, client, prog>>

SignCountTweets ==
  /\ sign.phase = "input"
  /\ LET in == sign.in
         since == WithTime(sign.since)
         until == WithTime(sign.until)
         target == in.server \o <<"2", "/", "t", "w", "e", "e", "t", "s", "/", "c", "o", "u", "n", "t", "s", "/", "a", "l", "l">>
     IN  sign' = Signed(in, "count_tweets", GET, target, since, until,
                        CountSignatureData(in, since, until), CountQuery(since, until))
  /\ UNCHANGED <<runVars, client, prog>>

SignDeleteTweet ==
  /\ sign.phase = "input"
  /\ LET in == sign.in
         target == Format(<<in.server \o <<"1", ".", "1", "/", "s", "t", "a", "t", "u", "s", "e", "s", "/", "d", "e", "s", "t", "r", "o", "y", "/">>, <<".", "j", "s", "o", "n">>>>, <<in.tweet_id_str>>)
     IN  sign' = Signed(in, "delete_tweet", POST, target, <<>>, <<>>,
                        DeleteSignatureData(in), <<>>)
  /\ UNCHANGED <<runVars, client, prog>>

\* the dates the operator can give on the command line, or none
Dates == {<<>>, <<<<"2", "0", "2", "2", "-", "0", "1", "-", "0", "1">>>>, <<<<"2", "0", "2", "2", " ", "1", "2">>>>}
ConsumerKeys == {<<"c", "k", "1">>, <<"c", "/", "k">>}
Tokens == {<<"1", "2", "-", "a", "b">>, <<"t", "/", "k">>}
Nonces == {<<"9", "f", "-", "0">>, <<"a", "1", "-", "7">>}
Timestamps == {<<"1", "7">>, <<"1", "8">>}

SignInputs ==
  [server : {<<"h", "t", "t", "p", "s", ":", "/", "/", "t", "/">>},
   consumer_key : ConsumerKeys,
   consumer_secret : {<<"c", "s">>},
   id : {<<"7">>},
   oauth_token : Tokens,
   oauth_token_secret : {<<"s", "/", "c">>},
   oauth_nonce : Nonces,
   oauth_timestamp : Timestamps,
   tweet_id_str : {<<"4", "2">>}]

SignInit ==
  /\ sign \in [phase : {"input"}, in : SignInputs, since : Dates, until : Dates]
  /\ client = NoClient
  /\ prog = NoProg
  /\ op = "none"
  /\ pc = "Idle"
  /\ is_continued = TRUE
  /\ result = <<>>
  /\ pos = 1
  /\ total_tweets_count = 0
  /\ tweets_count = 0
  /\ ret = "none"
  /\ errId = 0
  /\ lastFetch = "none"
  /\ acted = <<>>
  /\ everActed = {}
  /\ tally = ZeroTally
  /\ coll = <<>>

SignNext ==
  \/ SignFetchTimeline
  \/ SignCountTweets
  \/ SignDeleteTweet

SignSpec == SignInit /\ [][SignNext]_vars

(***************************************************************************)
(* The signed calls of a TwitterClient: fetch_timeline, count_tweets and   *)
(* delete_tweet, each with its own nonce and timestamp.                    *)
(***************************************************************************)

\* mutant: the nonce is generated once and kept with the client
NewNonce_Kept(c) == 1

\* Uuid::new_v4(): the next value of the generator, named by its rank among
\* the values drawn (the values of the generator are pairwise different)
NewNonce(c) == c.draws + 1

\* SystemTime::now().duration_since(UNIX_EPOCH).unwrap().as_secs()
Timestamp(c) == c.now

\* a signed call up to its request and the answer to it.  The nonce is drawn
\* first, then user_cred.as_ref().unwrap() panics on a client without a user
\* credential; answer is what the call makes of the response.
SignedCall(call, answer) ==
  /\ client.phase = "ready"
  /\ Len(client.sent) < MaxCalls
  /\ IF ~client.user_cred
       THEN client' = [client EXCEPT !.draws = @ + 1,
                                     !.phase = "panicked",
                                     !.call = call,
                                     !.outcome = "panic"]
       ELSE client' = [client EXCEPT !.draws = @ + 1,
                                     !.sent = Append(@, [call |-> call,
                                                         oauth_nonce |-> NewNonce(client),
                                                         oauth_timestamp |-> Timestamp(client),
                                                         authorization |-> "OAuth"]),
                                     !.phase = IF answer = "panic" THEN "panicked" ELSE "ready",
                                     !.call = call,
                                     !.outcome = answer]
  /\ UNCHANGED <<runVars, sign, prog>>

\* fetch_timeline: Ok(tweets), Err (work file, JSON), or panic on a failed request
CallFetchTimeline == \E answer \in {"Ok", "Err", "panic"} : SignedCall("fetch_timeline", answer)

\* count_tweets: the count, or panic on a failed request or response
CallCountTweets == \E answer \in {"Ok", "panic"} : SignedCall("count_tweets", answer)

\* delete_tweet: true or false
CallDeleteTweet == \E answer \in {"Ok", "Err"} : SignedCall("delete_tweet", answer)

\* the clock advances between the calls
Tick ==
  /\ client.phase = "ready"
  /\ client.now < MaxClock
  /\ client' = [client EXCEPT !.now = @ + 1]
  /\ UNCHANGED <<runVars, sign, prog>>

\* a client after new() (no user credential) or with a loaded one
ClientInit ==
  /\ client \in [phase : {"ready"}, user_cred : BOOLEAN, draws : {0}, now : {0},
                  sent : {<<>>}, call : {"none"}, outcome : {"none"}]
  /\ sign = NoSign
  /\ prog = NoProg
  /\ IdleRun

ClientNext ==
  \/ CallFetchTimeline
  \/ CallCountTweets
  \/ CallDeleteTweet
  \/ Tick

ClientSpec == ClientInit /\ [][ClientNext]_vars

(***************************************************************************)
(* One run of main: init_client, the login exchange, the dispatched        *)
(* command.  A response body is the sequence of its pieces between "&",    *)
(* each piece split at "=": <<key, value>>, or <<key>> when it has no "=". *)
(***************************************************************************)

Commands == {"Delete", "Fetch", "Login", "Unlike"}

\* the lines the operator can type as the handle: with the line feed that
\* read_line keeps, or ended by the end of the input
HandleLines == {<<"a", "l", "i", "c", "e", "\n">>, <<"a", "l", "i", "c", "e">>}

\* str.trim()
RECURSIVE Trim(_)
Trim(str) ==
  IF str = <<>> THEN <<>>
  ELSE IF Head(str) \in {" ", "\n"} THEN Trim(Tail(str))
  ELSE IF str[Len(str)] \in {" ", "\n"} THEN Trim(SubSeq(str, 1, Len(str) - 1))
  ELSE str

\* the credential file at the start: none, one that does not parse, a credential
StoredCredential ==
  [username |-> <<"b", "o", "b">>, id |-> "9", oauth_token |-> "oldT", oauth_token_secret |-> "oldS"]

Files ==
  {[kind |-> "absent", cred |-> <<>>],
   [kind |-> "unreadable", cred |-> <<>>],
   [kind |-> "credential", cred |-> <<StoredCredential>>]}

\* the file after serde_json::to_writer of cred
Written(cred) == [kind |-> "credential", cred |-> cred]

\* load_app_user_credential: Ok for a file that holds a credential
Loadable(file) == file.kind = "credential"

UserIds == {"123"}

RequestTokenResponses ==
  {<<<<"oauth_token", "tmpA">>, <<"oauth_token_secret", "tmpS">>,
     <<"oauth_callback_confirmed", "true">>>>,
   <<<<"oauth_callback_confirmed", "true">>>>,
   <<<<"oauth_token", "tmpA">>, <<"error">>>>}

AccessTokenResponses ==
  {<<<<"oauth_token", "finalB">>, <<"oauth_token_secret", "secC">>,
     <<"user_id", "123">>, <<"screen_name", "alice">>>>,
   <<<<"oauth_token", "finalB">>, <<"user_id", "123">>>>,
   <<<<"oauth_token_secret", "secC">>, <<"user_id", "123">>>>,
   <<<<"oauth_token", "finalB">>, <<"oauth_token_secret">>>>}

\* each_line[1] of a piece without "=": index out of bounds
Malformed(body) == \E i \in 1..Len(body) : Len(body[i]) < 2

\* HashMap::get(key).is_some() and its value
Has(body, key) == \E i \in 1..Len(body) : body[i][1] = key
Get(body, key) == body[CHOOSE i \in 1..Len(body) : body[i][1] = key][2]

MainStart ==
  [pc : {"init_client"},
   command : Commands,
   file : Files,
   user_cred : {<<>>},
   loaded : {"none"},
   init_login : {FALSE},
   caller : {"none"},
   username : {<<>>},
   user_id : {"none"},
   request_token_keys : {<<>>},
   access_token_keys : {<<>>},
   login_cred : {<<>>},
   steps : {<<>>},
   http : {<<>>},
   logins : {0},
   login_outcome : {"none"},
   deficient : {FALSE},
   init_result : {"none"},
   ran : {"none"},
   result : {"none"}]

\* a step of login that went through
StepOk(name) == Append(prog.steps, <<name, TRUE>>)

\* a step of login that returned Err with `?`: login is over, its caller goes on
StepErr(name) ==
  prog' = [prog EXCEPT !.steps = Append(@, <<name, FALSE>>),
                       !.login_outcome = "Err",
                       !.pc = "login_returned"]

\* a step of login that panicked: the process is over
StepPanic(name) ==
  prog' = [prog EXCEPT !.steps = Append(@, <<name, FALSE>>),
                       !.login_outcome = "panic",
                       !.result = "panic",
                       !.init_result = IF prog.caller = "init_client" THEN "panic" ELSE @,
                       !.pc = "exit"]

\* the state in which login starts, called for caller
StartLogin(caller) ==
  [prog EXCEPT !.pc = "handle",
               !.caller = caller,
               !.logins = @ + 1,
               !.steps = <<>>,
               !.login_outcome = "none",
               !.login_cred = <<>>,
               !.request_token_keys = <<>>,
               !.access_token_keys = <<>>]

\* init_client up to the client it returns or the login it starts
InitClient ==
  /\ prog.pc = "init_client"
  /\ IF Loadable(prog.file)
       THEN prog' = [prog EXCEPT !.loaded = "yes",
                                 !.user_cred = prog.file.cred,
                                 !.init_result = "Ok",
                                 !.pc = "dispatch"]
       ELSE prog' = [StartLogin("init_client") EXCEPT !.loaded = "no", !.init_login = TRUE]
  /\ UNCHANGED <<runVars, sign, client>>

\* login: the handle is read from the standard input
LoginPromptHandle ==
  /\ prog.pc = "handle"
  /\ \/ \E line \in HandleLines :
          prog' = [prog EXCEPT !.username = line,
                               !.steps = StepOk("handle"),
                               !.pc = "lookup"]
     \/ StepPanic("handle")
  /\ UNCHANGED <<runVars, sign, client>>

\* mutant: the answer to the lookup is not checked
LoginLookup_Unchecked ==
  /\ prog.pc = "lookup"
  /\ \E ok \in BOOLEAN :
       prog' = [prog EXCEPT !.http = Append(@, [request |-> "users/by/username",
                                                argument |-> Trim(prog.username),
                                                authorization |-> "Bearer"]),
                            !.user_id = IF ok THEN "123" ELSE "none",
                            !.steps = Append(@, <<"lookup", ok>>),
                            !.pc = "request_token"]
  /\ UNCHANGED <<runVars, sign, client>>

\* login: the user id is looked up by the trimmed handle
LoginLookup ==
  /\ prog.pc = "lookup"
  /\ LET sent == [prog EXCEPT !.http = Append(@, [request |-> "users/by/username",
                                                   argument |-> Trim(prog.username),
                                                   authorization |-> "Bearer"])]
     IN  \/ \E id \in UserIds :
              prog' = [sent EXCEPT !.user_id = id,
                                   !.steps = StepOk("lookup"),
                                   !.pc = "request_token"]
         \/ prog' = [sent EXCEPT !.steps = Append(@, <<"lookup", FALSE>>),
                                  !.login_outcome = "Err",
                                  !.pc = "login_returned"]
  /\ UNCHANGED <<runVars, sign, client>>

\* login: the request token is asked for and the response is split
LoginRequestToken ==
  /\ prog.pc = "request_token"
  /\ LET sent == [prog EXCEPT !.http = Append(@, [request |-> "oauth/request_token",
                                                   argument |-> <<>>,
                                                   authorization |-> "Bearer"])]
     IN  \/ \E body \in RequestTokenResponses :
              IF Malformed(body)
                THEN prog' = [sent EXCEPT !.steps = Append(@, <<"request_token", FALSE>>),
                                          !.deficient = TRUE,
                                          !.login_outcome = "panic",
                                          !.result = "panic",
                                          !.init_result =
                                             IF prog.caller = "init_client" THEN "panic" ELSE @,
                                          !.pc = "exit"]
                ELSE prog' = [sent EXCEPT !.request_token_keys = body,
                                          !.steps = StepOk("request_token"),
                                          !.pc = "authorize_url"]
         \/ prog' = [sent EXCEPT !.steps = Append(@, <<"request_token", FALSE>>),
                                  !.login_outcome = "Err",
                                  !.pc = "login_returned"]
  /\ UNCHANGED <<runVars, sign, client>>

\* login: the authorization URL is built from oauth_token and shown
LoginAuthorizeUrl ==
  /\ prog.pc = "authorize_url"
  /\ IF Has(prog.request_token_keys, "oauth_token")
       THEN prog' = [prog EXCEPT !.steps = StepOk("authorize_url"),
                                 !.pc = "verifier"]
       ELSE prog' = [prog EXCEPT !.steps = Append(@, <<"authorize_url", FALSE>>),
                                 !.deficient = TRUE,
                                 !.login_outcome = "panic",
                                 !.result = "panic",
                                 !.init_result =
                                    IF prog.caller = "init_client" THEN "panic" ELSE @,
                                 !.pc = "exit"]
  /\ UNCHANGED <<runVars, sign, client>>

\* login: the verifier is read from the standard input
LoginPromptVerifier ==
  /\ prog.pc = "verifier"
  /\ \/ prog' = [prog EXCEPT !.steps = StepOk("verifier"),
                              !.pc = "access_token"]
     \/ StepPanic("verifier")
  /\ UNCHANGED <<runVars, sign, client>>

\* login: the verifier is exchanged for the access token and the credential
\* is built from the response
LoginAccessToken ==
  /\ prog.pc = "access_token"
  /\ LET sent == [prog EXCEPT !.http = Append(@, [request |-> "oauth/access_token",
                                                   argument |-> Get(prog.request_token_keys,
                                                                    "oauth_token"),
                                                   authorization |-> "none"])]
     IN  \/ \E body \in AccessTokenResponses :
              IF \/ Malformed(body)
                 \/ ~Has(body, "oauth_token")
                 \/ ~Has(body, "oauth_token_secret")
                THEN prog' = [sent EXCEPT !.steps = Append(@, <<"access_token", FALSE>>),
                                          !.deficient = TRUE,
                                          !.login_outcome = "panic",
                                          !.result = "panic",
                                          !.init_result =
                                             IF prog.caller = "init_client" THEN "panic" ELSE @,
                                          !.pc = "exit"]
                ELSE prog' = [sent EXCEPT
                                !.access_token_keys = body,
                                !.login_cred =
                                   <<[username |-> prog.username,
                                      id |-> prog.user_id,
                                      oauth_token |-> Get(body, "oauth_token"),
                                      oauth_token_secret |-> Get(body, "oauth_token_secret")]>>,
                                !.steps = StepOk("access_token"),
                                !.pc = "login_store"]
         \/ prog' = [sent EXCEPT !.steps = Append(@, <<"access_token", FALSE>>),
                                  !.login_outcome = "Err",
                                  !.pc = "login_returned"]
  /\ UNCHANGED <<runVars, sign, client>>

\* login: the credential is written to config_path and returned
LoginStore ==
  /\ prog.pc = "login_store"
  /\ \/ prog' = [prog EXCEPT !.file = Written(prog.login_cred),
                              !.steps = Append(StepOk("store"), <<"return", TRUE>>),
                              !.login_outcome = "Ok",
                              !.pc = "login_returned"]
     \/ StepErr("store")
  /\ UNCHANGED <<runVars, sign, client>>

\* init_user_cred is not part of the sources at hand: it puts the credential
\* into the client
init_user_cred(cred) == cred

\* login_and_store after login has returned, and then its caller: init_client
\* (with `?`) or the Login command (which drops the result)
LoginAndStore ==
  /\ prog.pc = "login_returned"
  /\ \E written \in BOOLEAN :
       LET ok == prog.login_outcome = "Ok" /\ written
           after == IF ok
                      THEN [prog EXCEPT !.file = Written(prog.login_cred),
                                        !.steps = Append(@, <<"store", TRUE>>)]
                      ELSE prog
       IN  IF prog.caller = "init_client"
             THEN IF ok
                    THEN prog' = [after EXCEPT !.user_cred = init_user_cred(prog.login_cred),
                                               !.init_result = "Ok",
                                               !.pc = "dispatch"]
                    ELSE prog' = [after EXCEPT !.init_result = "Err",
                                               !.result = "Err",
                                               !.pc = "exit"]
             ELSE prog' = [after EXCEPT !.result = "Ok", !.pc = "exit"]
  /\ UNCHANGED <<runVars, sign, client>>

\* main: the command is dispatched on the client init_client returned
Dispatch ==
  /\ prog.pc = "dispatch"
  /\ IF prog.command = "Login"
       THEN prog' = [StartLogin("login") EXCEPT !.ran = "Login"]
       ELSE \E outcome \in {"Ok", "Err", "panic"} :
              prog' = [prog EXCEPT !.ran = prog.command,
                                   !.result = outcome,
                                   !.pc = "exit"]
  /\ UNCHANGED <<runVars, sign, client>>

MainInit ==
  /\ prog \in MainStart
  /\ sign = NoSign
  /\ client = NoClient
  /\ IdleRun

MainNext ==
  \/ InitClient
  \/ LoginPromptHandle
  \/ LoginLookup
  \/ LoginRequestToken
  \/ LoginAuthorizeUrl
  \/ LoginPromptVerifier
  \/ LoginAccessToken
  \/ LoginStore
  \/ LoginAndStore
  \/ Dispatch

MainSpec == MainInit /\ [][MainNext]_vars

(***************************************************************************)
(* Properties of the pipelines.                                            *)
(***************************************************************************)
ActedIds == [i \in 1..Len(acted) |-> acted[i][1]]

FailedAt(i) == ~acted[i][2]

Returned == pc \in {"Done", "Aborted"}

\* C1: in delete_tweets and in unlike_likes, when the first fetch returns an
\* empty collection the run has issued exactly one fetch call and no
\* single-item action call, has ended (Done) and has returned Ok.
C1_EmptyFirstFetch ==
  (lastFetch = "ok" /\ result = <<>> /\ tally.nonEmpty = 0)
    => /\ tally.fetch = 1
       /\ tally.act = 0
       /\ pc = "Done"
       /\ ret = "Ok"
       /\ ~is_continued

C1_Witness ==
  /\ lastFetch = "ok" /\ result = <<>> /\ tally.nonEmpty = 0
  /\ tally.fetch = 1 /\ pc = "Done" /\ op = "unlike"

\* C2: in delete_tweets, when the delete of item k of a batch fails (after
\* items 1..k-1 succeeded) the run returns an error naming id_k, and after
\* the failed call no further delete call and no further fetch call is made.
C2_FailedDelete ==
  (op = "delete" /\ Len(acted) > 0 /\ FailedAt(Len(acted)))
    => /\ pc = "Aborted"
       /\ ret = "Err"
       /\ errId = result[Len(acted)]
       /\ errId = acted[Len(acted)][1]
       /\ \A i \in 1..(Len(acted) - 1) : ~FailedAt(i)

C2_DeleteIsFatal ==
  /\ []C2_FailedDelete
  /\ [][(op = "delete" /\ Len(acted) > 0 /\ FailedAt(Len(acted)))
          => (tally' = tally /\ acted' = acted)]_vars

C2_Witness ==
  /\ op = "delete" /\ pc = "Aborted"
  /\ Len(result) = 2 /\ Len(acted) = 2
  /\ ~FailedAt(1) /\ FailedAt(2) /\ errId = result[2]

\* C3: in unlike_likes, whatever items of a batch of N >= 1 targets the unlike
\* fails on, the run issues one unlike call for each of the N items of the
\* batch, never returns in the middle of it, and then is at the next fetch.
C3_UnlikeAttemptsAll ==
  op = "unlike"
    => /\ pc # "Aborted" /\ ret # "Err"
       /\ pc = "ActingOnBatch"
            => /\ Len(acted) = pos - 1
               /\ pos <= Len(result)
               /\ ret = "none"
       /\ (pc = "FetchingBatch" /\ lastFetch = "ok")
            => /\ ActedIds = result
               /\ Len(result) >= 1
               /\ is_continued
               /\ ret = "none"

C3_Witness ==
  /\ op = "unlike" /\ pc = "FetchingBatch" /\ lastFetch = "ok"
  /\ Len(result) = 2 /\ Len(acted) = 2
  /\ FailedAt(1)

\* C4: whenever a fetch fails (an Err of the fetch call, or a request that
\* failed at the transport), the run is Done, has returned Ok, and makes no
\* further call.
C4_FetchFailureEndsRun ==
  lastFetch \in {"err", "panic"} => (pc = "Done" /\ ret = "Ok")

\* C5: in delete_tweets, after m non-empty batches and an empty one, every
\* delete having succeeded, the run has issued m + 1 fetch calls and one
\* delete call per returned target, and has returned Ok; between the rounds
\* every returned target has been deleted once.
C5_DeleteAll ==
  op = "delete"
    => /\ (pc = "Done" /\ lastFetch = "ok")
            => /\ tally.fetch = tally.nonEmpty + 1
               /\ tally.act = tally.fetched
               /\ tally.failed = 0
               /\ ret = "Ok"
       /\ (pc = "FetchingBatch" /\ lastFetch = "ok")
            => /\ tally.fetch = tally.nonEmpty
               /\ tally.act = tally.fetched
               /\ ActedIds = result

\* the scenario [[a, b], []]: two deletes, two fetches
C5_Witness ==
  /\ op = "delete" /\ pc = "Done" /\ lastFetch = "ok" /\ ret = "Ok"
  /\ tally.nonEmpty = 1 /\ tally.fetched = 2
  /\ tally.act = 2 /\ tally.fetch = 2

\* C6: within one batch, the ids passed to the single-item action are a prefix
\* of the ids the fetch returned, in the same order: none twice, none skipped,
\* none from outside the batch.
C6_ActsInFetchOrder ==
  /\ Len(acted) <= Len(result)
  /\ \A i \in 1..Len(acted) : acted[i][1] = result[i]
  /\ \A i, j \in 1..Len(acted) : i # j => acted[i][1] # acted[j][1]

C6_Witness ==
  /\ Len(result) = 2 /\ Len(acted) = 2
  /\ acted[1][1] = result[1] /\ acted[2][1] = result[2]
  /\ op = "unlike"

\* C7: the run returns an error exactly when it ended in Aborted; Aborted is
\* entered only from ActingOnBatch by a failed delete_tweet; every returned
\* run of unlike_likes, and every returned run of delete_tweets in which no
\* delete failed, returned Ok; after Done or Aborted no call is made.
C7_ResultMatchesState ==
  /\ ret = "Err" <=> pc = "Aborted"
  /\ ret = "Ok" <=> pc = "Done"
  /\ pc = "Aborted" => (op = "delete" /\ tally.failed = 1 /\ FailedAt(Len(acted)))
  /\ (Returned /\ (op = "unlike" \/ tally.failed = 0)) => ret = "Ok"

C17_PauseAfterAction ==
  \A i \in 1..Len(acted) :
    (i < Len(acted) \/ pc # "Aborted") => acted[i][3] = 1

C17_Witness ==
  /\ op = "unlike" /\ pc = "FetchingBatch" /\ lastFetch = "ok"
  /\ Len(acted) = 2
  /\ FailedAt(1) /\ acted[1][3] = 1
  /\ ~FailedAt(2) /\ acted[2][3] = 1

\* C8: with the collection client, every run ends (Done or Aborted; a fetch
\* that panics, C4, is counted as an end too).
C8_Converges == <>(pc \in Terminal)

\* C19: with the collection client, in a run where no fetch fails and that is
\* not aborted, every target that is in the collection at the start of the
\* run is eventually passed to the single-item action.
C19_EveryTargetReached ==
  \A id \in Ids :
    (id \in Range(coll))
      => <>(id \in everActed \/ lastFetch \in {"err", "panic"} \/ pc = "Aborted")

(***************************************************************************)
(* Properties of the signed parameter string.                              *)
(***************************************************************************)

\* the pieces of str between the occurrences of sep
Split(str, sep) ==
  LET P == {i \in 1..Len(str) : str[i] = sep}
      n == Cardinality(P)
      at(k) == IF k = 0 THEN 0
               ELSE IF k = n + 1 THEN Len(str) + 1
               ELSE CHOOSE i \in P : Cardinality({j \in P : j < i}) = k - 1
  IN  [k \in 1..(n + 1) |-> SubSeq(str, at(k - 1) + 1, at(k) - 1)]

\* key=value, split at the first "="
ParsePair(piece) ==
  LET E == {i \in 1..Len(piece) : piece[i] = "="}
  IN  IF E = {} THEN <<piece, <<>> >>
      ELSE LET e == CHOOSE i \in E : \A j \in E : i <= j
           IN  <<SubSeq(piece, 1, e - 1), SubSeq(piece, e + 1, Len(piece))>>

\* the (key, value) pairs of a parameter string, in its order
ParsePairs(str) ==
  LET pieces == Split(str, "&")
  IN  [k \in 1..Len(pieces) |-> ParsePair(pieces[k])]

\* byte / lexicographic order of strings
LexLess(a, b) ==
  \E i \in 1..Len(b) :
    /\ \A j \in 1..(i - 1) : j <= Len(a) /\ a[j] = b[j]
    /\ \/ i = Len(a) + 1
       \/ i <= Len(a) /\ Code(a[i]) < Code(b[i])

PairLess(p, q) == LexLess(p[1], q[1]) \/ (p[1] = q[1] /\ LexLess(p[2], q[2]))

\* a set of pairs sorted by key, ties broken by value
SortByKey(S) ==
  [k \in 1..Cardinality(S) |->
     CHOOSE q \in S : Cardinality({r \in S : PairLess(r, q)}) = k - 1]

\* key=value pairs joined with "&"
Render(pairs) ==
  Concat([k \in 1..Len(pairs) |->
            (IF k = 1 THEN <<>> ELSE <<"&">>) \o pairs[k][1] \o <<"=">> \o pairs[k][2]],
         1, Len(pairs))

SignedPairs == ParsePairs(sign.signature_data)

SignedValue(key) ==
  LET k == CHOOSE i \in 1..Len(SignedPairs) : SignedPairs[i][1] = key
  IN  SignedPairs[k][2]

HasSigned(key) == \E i \in 1..Len(SignedPairs) : SignedPairs[i][1] = key

\* C9: for fetch_timeline, count_tweets and delete_tweet and every presence
\* of since / until, the keys of the signed parameter string are in strictly
\* ascending byte order, so that the parameter string, and with it the
\* signature base string, is the one obtained by sorting the parameter set by
\* key.
C9_KeysAscending ==
  sign.phase = "signed"
    => /\ \A i \in 1..(Len(SignedPairs) - 1) :
            LexLess(SignedPairs[i][1], SignedPairs[i + 1][1])
       /\ Render(SortByKey(Range(SignedPairs))) = sign.signature_data
       /\ sign.joined_signature_data
            = sign.method \o <<"&">> \o byte_serialize(sign.target) \o <<"&">>
                \o byte_serialize(Render(SortByKey(Range(SignedPairs))))

C9_Witness ==
  /\ sign.phase = "signed"
  /\ sign.call = "fetch_timeline"
  /\ IsSome(sign.since) /\ IsSome(sign.until)
  /\ Len(SignedPairs) = 10
  /\ SignedPairs[1][1] = <<"e", "n", "d", "_", "t", "i", "m", "e">>
  /\ SignedPairs[9][1] = <<"s", "t", "a", "r", "t", "_", "t", "i", "m", "e">>

\* the value the caller holds for a key, before any encoding
RawValue(key) ==
  CASE key = <<"o", "a", "u", "t", "h", "_", "c", "o", "n", "s", "u", "m", "e", "r", "_", "k", "e", "y">> -> sign.in.consumer_key
    [] key = <<"o", "a", "u", "t", "h", "_", "n", "o", "n", "c", "e">> -> sign.in.oauth_nonce
    [] key = <<"o", "a", "u", "t", "h", "_", "t", "i", "m", "e", "s", "t", "a", "m", "p">> -> sign.in.oauth_timestamp
    [] key = <<"o", "a", "u", "t", "h", "_", "t", "o", "k", "e", "n">> -> sign.in.oauth_token
    [] key = <<"s", "t", "a", "r", "t", "_", "t", "i", "m", "e">> -> Unwrap(sign.since)
    [] key = <<"e", "n", "d", "_", "t", "i", "m", "e">> -> Unwrap(sign.until)
    [] key = <<"m", "a", "x", "_", "r", "e", "s", "u", "l", "t", "s">> -> <<"1", "0", "0">>
    [] key = <<"t", "w", "e", "e", "t", ".", "f", "i", "e", "l", "d", "s">> -> <<"c", "r", "e", "a", "t", "e", "d", "_", "a", "t", ",", "p", "u", "b", "l", "i", "c", "_", "m", "e", "t", "r", "i", "c", "s", ",", "a", "t", "t", "a", "c", "h", "m", "e", "n", "t", "s">>

EncodedKeys ==
  {<<"o", "a", "u", "t", "h", "_", "c", "o", "n", "s", "u", "m", "e", "r", "_", "k", "e", "y">>, <<"o", "a", "u", "t", "h", "_", "n", "o", "n", "c", "e">>, <<"o", "a", "u", "t", "h", "_", "t", "i", "m", "e", "s", "t", "a", "m", "p">>, <<"o", "a", "u", "t", "h", "_", "t", "o", "k", "e", "n">>,
   <<"s", "t", "a", "r", "t", "_", "t", "i", "m", "e">>, <<"e", "n", "d", "_", "t", "i", "m", "e">>, <<"m", "a", "x", "_", "r", "e", "s", "u", "l", "t", "s">>, <<"t", "w", "e", "e", "t", ".", "f", "i", "e", "l", "d", "s">>}

\* C10: every value of the parameter string (consumer key, nonce, timestamp,
\* token, start_time, end_time, max_results, tweet.fields) is the
\* percent-encoding of its raw value, applied once; the only second encoding
\* is that of the whole parameter string in the signature base string.
C10_ValuesEncodedOnce ==
  sign.phase = "signed"
    => /\ \A key \in EncodedKeys :
            HasSigned(key) => SignedValue(key) = byte_serialize(RawValue(key))
       /\ sign.joined_signature_data
            = sign.method \o <<"&">> \o byte_serialize(sign.target) \o <<"&">>
                \o byte_serialize(sign.signature_data)

\* the six parameters every signed call adds to its own
OAuthKeys ==
  {<<"o", "a", "u", "t", "h", "_", "c", "o", "n", "s", "u", "m", "e", "r", "_", "k", "e", "y">>, <<"o", "a", "u", "t", "h", "_", "n", "o", "n", "c", "e">>, <<"o", "a", "u", "t", "h", "_", "s", "i", "g", "n", "a", "t", "u", "r", "e", "_", "m", "e", "t", "h", "o", "d">>,
   <<"o", "a", "u", "t", "h", "_", "t", "i", "m", "e", "s", "t", "a", "m", "p">>, <<"o", "a", "u", "t", "h", "_", "t", "o", "k", "e", "n">>, <<"o", "a", "u", "t", "h", "_", "v", "e", "r", "s", "i", "o", "n">>}

\* C20: for every signed call and every presence of since / until, the
\* endpoint-specific (key, value) pairs of the signed parameter string are
\* exactly the query parameters attached to the request that is sent:
\* nothing is signed but not sent, nothing is sent but not signed.
C20_SignedEqualsSent ==
  sign.phase = "signed"
    => {q \in Range(SignedPairs) : q[1] \notin OAuthKeys}
         = {<<q[1], byte_serialize(q[2])>> : q \in Range(sign.query)}

C20_Witness ==
  /\ sign.phase = "signed"
  /\ sign.call = "fetch_timeline"
  /\ IsSome(sign.since) /\ IsSome(sign.until)
  /\ Len(sign.query) = 4
  /\ Cardinality({q \in Range(SignedPairs) : q[1] \notin OAuthKeys}) = 4

(***************************************************************************)
(* Properties of the signed calls.                                         *)
(***************************************************************************)

\* C11: every signed request of a run carries a newly generated nonce and
\* the timestamp of the moment of the call; no two signed requests (fetches,
\* deletes, or one of each) carry the same (nonce, timestamp) pair.
C11_NoPairTwice ==
  client.phase # "none"
    => \A i, j \in 1..Len(client.sent) :
         i # j => <<client.sent[i].oauth_nonce, client.sent[i].oauth_timestamp>>
                    # <<client.sent[j].oauth_nonce, client.sent[j].oauth_timestamp>>

C11_FreshPerCall ==
  /\ []C11_NoPairTwice
  /\ [][(client.phase # "none" /\ Len(client'.sent) > Len(client.sent))
          => LET r == client'.sent[Len(client'.sent)]
             IN  /\ r.oauth_timestamp = client.now
                 /\ \A i \in 1..Len(client.sent) : client.sent[i].oauth_nonce # r.oauth_nonce]_vars

C11_Witness ==
  /\ client.phase = "ready"
  /\ Len(client.sent) = 3
  /\ client.sent[1].call = "fetch_timeline"
  /\ client.sent[2].call = "delete_tweet"
  /\ client.sent[3].call = "delete_tweet"
  /\ client.sent[2].oauth_timestamp = client.sent[3].oauth_timestamp

\* C13: a signed call on a client without a user credential returns an error
\* to its caller, at once and without any HTTP request.
C13_MissingCredentialIsErr ==
  (client.phase # "none" /\ ~client.user_cred /\ client.call # "none")
    => (client.outcome = "Err" /\ client.sent = <<>>)


(***************************************************************************)
(* Properties of init_client and login, over MainSpec.                     *)
(***************************************************************************)

\* C14: a login whose response lacks an expected token field ends with an
\* error returned as a value, the run that called it returns that error, and
\* the login has written no credential
C14_MissingFieldIsErr ==
  prog.deficient =>
    /\ prog.login_outcome = "Err"
    /\ \A i \in 1..Len(prog.steps) : prog.steps[i] # <<"store", TRUE>>
    /\ prog.pc = "exit" => prog.result = "Err"

\* C15: init_client runs login exactly when no credential could be loaded;
\* a client it returns holds a credential, no command runs without one, and
\* when its login has failed it has returned an error
C15_InitClient ==
  /\ prog.loaded = "yes" => ~prog.init_login
  /\ prog.loaded = "no" => prog.init_login
  /\ prog.init_result = "Ok" => prog.user_cred # <<>>
  /\ prog.ran # "none" => prog.user_cred # <<>>
  /\ (prog.caller = "init_client" /\ prog.pc = "exit"
        /\ prog.login_outcome \in {"Err", "panic"})
       => prog.init_result = "Err"

\* the handle login looked up
LookedUp == prog.http[CHOOSE i \in 1..Len(prog.http) :
                        prog.http[i].request = "users/by/username"].argument

\* C16: the credential login returns has the handle that was entered as its
\* username, the id the lookup answered, and the token and secret of the
\* access-token response
C16_CredentialFields ==
  prog.login_outcome = "Ok" =>
    LET cred == prog.login_cred[1]
    IN  /\ cred.username = LookedUp
        /\ cred.id = prog.user_id
        /\ cred.oauth_token = Get(prog.access_token_keys, "oauth_token")
        /\ cred.oauth_token_secret = Get(prog.access_token_keys, "oauth_token_secret")

\* the steps of one login, in the order the claim gives them, with the two
\* writes of the credential (login's own, then login_and_store's)
LoginOrder ==
  <<"handle", "lookup", "request_token", "authorize_url", "verifier",
    "access_token", "store", "return", "store">>

C18_StepsInOrder ==
  /\ Len(prog.steps) <= Len(LoginOrder)
  /\ \A i \in 1..Len(prog.steps) : prog.steps[i][1] = LoginOrder[i]
  /\ \A i \in 1..(Len(prog.steps) - 1) : prog.steps[i][2]

\* C18: the steps of login run in the fixed order, each only after the one
\* before it succeeded, so a failed step is the last one; the credential file
\* changes only after the access-token exchange of this login succeeded
C18_LoginOrder ==
  /\ []C18_StepsInOrder
  /\ [][prog'.file # prog.file =>
          \E i \in 1..Len(prog.steps) : prog.steps[i] = <<"access_token", TRUE>>]_vars

\* a login that went through all its steps, as the Login command, after
\* init_client had loaded a credential
C18_Witness ==
  /\ prog.pc = "exit"
  /\ prog.caller = "login"
  /\ Len(prog.steps) = Len(LoginOrder)
  /\ \A i \in 1..Len(prog.steps) : prog.steps[i] = <<LoginOrder[i], TRUE>>
  /\ prog.file = Written(prog.login_cred)
  /\ prog.file.cred # <<StoredCredential>>


\* C23: the progress counter is 0 when a batch starts and, after every item
\* that was reported, is the number of items of the batch acted on so far,
\* succeeded or skipped, hence at most the number fetched
C23_CounterIsActedCount ==
  /\ (pc = "ActingOnBatch" /\ acted = <<>>) => tweets_count = 0
  /\ (op # "none" /\ acted # <<>> /\ pc # "Aborted") =>
       /\ tweets_count = Len(acted)
       /\ tweets_count <= total_tweets_count


\* C22: in one run of main the login exchange is started at most once
C22_LoginAtMostOnce == prog.logins <= 1


\* the form of Authorization header a request is to carry
ExpectedAuthorization(request) ==
  IF request \in {"users/by/username", "oauth/request_token"} THEN "Bearer" ELSE "OAuth"

\* C21: every HTTP request carries one Authorization header: the Bearer form
\* for the user lookup and the request-token step, the signed OAuth form for
\* every other request, the access-token exchange and the signed calls included
C21_OneAuthorizationHeader ==
  /\ "http" \in DOMAIN prog =>
       \A i \in 1..Len(prog.http) :
         prog.http[i].authorization = ExpectedAuthorization(prog.http[i].request)
  /\ client.phase # "none" =>
       \A i \in 1..Len(client.sent) :
         client.sent[i].authorization = ExpectedAuthorization(client.sent[i].call)

====
